---- MODULE Spec2Model ----
(***************************************************************************)
(* Model of the scraping orchestration layer of fb_app:                    *)
(*   - DriverPool                (src/fb_app/driver_pool.py)               *)
(*   - MultiThreadScraper        (src/fb_app/multi_thread_scraper.py)      *)
(*   - PremiumScraper            (src/premium/premium_scraper.py)          *)
(* One run of scrape_urls over NumTasks targets is modelled: the executor  *)
(* threads running _scrape_single_url / _scrape_single_task (with its      *)
(* recursive retry), the collecting thread inside scrape_urls, and a       *)
(* thread that may call shutdown() at any moment.                          *)
(* The API objects that start and stop runs from UI calls are modelled on  *)
(* top of an abstract run:                                                 *)
(*   - MultiThreadApi            (src/fb_app/app_multi.py)                 *)
(*   - PremiumApi                (src/premium/app_premium.py)              *)
(***************************************************************************)
EXTENDS Integers, Sequences, FiniteSets, TLC

\* ---------------------------------------------------------------- bounds
NumTasks   == 2      \* len(urls)
MaxWorkers == 2      \* max_workers
PoolSize   == 2      \* driver_pool_size
MaxRetries == 1      \* max_retries
MaxDrivers == 3      \* number of WebDriver objects ever constructed
MaxBase    == 5      \* largest config.retry_delay_base
MaxRetryBound == 6   \* largest max_retries of the backoff sequence
MaxTotal   == 3      \* largest total_tasks of a progress snapshot
MaxElapsed == 3      \* largest time.time() - start_time, in seconds
MaxRuns    == 2      \* start_scraping calls that are accepted
MaxApiCalls == 4     \* start_scraping and stop_scraping calls made
MaxTime    == 1      \* largest int(time.time()) of a start_scraping call

\* min(..., 10): the ceiling of the retry delay, in seconds
BackoffCeiling == 10

Tasks   == 0 .. (NumTasks - 1)
Drivers == 1 .. MaxDrivers

\* urls[i] of the caller, 0-based like enumerate(urls)
Url(i) == 100 + i

\* Python's None for a driver variable and for an error message
NoDriver == 0
NoneMsg  == "None"
ExtractErrorMsg == "Extraction Error"
ExceptionMsg    == "Exception"
PoolEmptyMsg    == "No drivers available in pool"

\* the runs an API object starts, None for self.scraper and self.current_task_id
Runs == 1 .. MaxRuns
NoScraper == 0
NoTaskId == -1
\* what start_scraping and stop_scraping return
OkMsg == "success"
NoReturn == "none"
AlreadyRunningMsg == "Scraping is already in progress"
NotRunningMsg == "No scraping process is currently running"

VARIABLES
    variant,         \* "multi" (MultiThreadScraper) or "premium" (PremiumScraper)
    pool_size,       \* DriverPool.pool_size, the size asked for
    max_workers,     \* MultiThreadScraper.max_workers / config.max_workers
    init_i,          \* _initialize_pool: iterations of its loop done so far
    init_failed,     \* _initialize_pool: constructions that raised (history)
    driver_queue,    \* DriverPool.driver_queue (FIFO of driver ids)
    active_drivers,  \* DriverPool.active_drivers
    quitted,         \* drivers on which quit() has been called
    nextDriver,      \* id the next constructed driver gets
    shutdown_event,  \* shutdown_event.is_set()
    sd_pc,           \* position of the thread running shutdown()
    rate_limiter,    \* permits of rate_limiter / scrape_semaphore
    tpc,             \* per task: position of its unit of work
    frames,          \* per task: the local `driver` of each live recursive frame
    retry_count,     \* task.retry_count
    retval,          \* per task: value the unit of work returns
    completed_tasks, \* progress counter
    failed_tasks,    \* progress counter
    results,         \* the results list of scrape_urls
    yielded,         \* futures already yielded by as_completed
    main_pc,         \* position of the thread running scrape_urls
    notified,        \* progress_callback invocations per Result's task_id, -1 for None (history)
    attempts,        \* per task: attempts started (history)
    calls,           \* per task: Extractor invocations (history)
    outstanding,     \* per task: get_driver calls minus return_driver calls (history)
    lock,            \* thread holding ProgressTracker.lock / progress_lock (0 = free)
    wpc,             \* per updating thread: position inside update_progress
    wok,             \* per updating thread: the success argument of its call
    wtmp,            \* per updating thread: the value `+= 1` has loaded
    rpc,             \* position of the thread reading the progress
    snap,            \* <<completed_tasks, failed_tasks>> as the reader got them
    n_calls,         \* update_progress calls that returned (history)
    f_calls,         \* those of them with success=False (history)
    committed,       \* pairs the counters held with the lock free (history)
    st_pc,           \* position of the thread calling get_pool_status
    st_available,    \* its 'available_drivers'
    st_active,       \* its 'active_drivers'
    bk_base,         \* base of the retry delay: 2 / config.retry_delay_base
    bk_max,          \* task.max_retries of the task whose delays are followed
    bk_r,            \* its task.retry_count
    bk_delay,        \* its last retry_delay (0: none yet)
    sn_total,        \* total_tasks of the progress that is read
    sn_completed,    \* its completed_tasks
    sn_failed,       \* its failed_tasks
    sn_elapsed,      \* time.time() - start_time of the run at the read
    sn_out,          \* the progress snapshot handed to the reader
    is_scraping,     \* MultiThreadApi / PremiumApi: self.is_scraping
    current_task_id, \* self.current_task_id (the clock value it is built from)
    results_cache,   \* self.results_cache: per Result, the run that produced it
    progress_data,   \* MultiThreadApi.progress_data
    scraper,         \* self.scraper: the run whose scraper object it is (0 = None)
    api_lock,        \* self.lock is held by the polling thread
    api_now,         \* int(time.time()) at the last accepted start
    api_calls,       \* start/stop calls made (history)
    api_op,          \* the last start/stop call made
    api_ret,         \* what the last start/stop call that returned has returned
    run_pc,          \* per run: position of start_scraping / scraping_worker
    run_shutdown,    \* per run: its scraper's shutdown_event
    run_results,     \* per run: len(results) inside its scrape_urls
    progress_lock,   \* per run: PremiumScraper.progress_lock is held by its collector
    poll_pc          \* position of the thread polling the progress

vars == <<variant, pool_size, max_workers, init_i, init_failed, notified, driver_queue, active_drivers, quitted, nextDriver,
          shutdown_event, sd_pc, rate_limiter, tpc, frames, retry_count,
          retval, completed_tasks, failed_tasks, results, yielded, main_pc,
          attempts, calls, outstanding,
          lock, wpc, wok, wtmp, rpc, snap, n_calls, f_calls, committed,
          st_pc, st_available, st_active,
          bk_base, bk_max, bk_r, bk_delay,
          sn_total, sn_completed, sn_failed, sn_elapsed, sn_out,
          is_scraping, current_task_id, results_cache, progress_data, scraper,
          api_lock, api_now, api_calls, api_op, api_ret,
          run_pc, run_shutdown, run_results, progress_lock, poll_pc>>

\* what no step of a run changes
cfgVars == <<variant, pool_size, max_workers>>
initVars == <<init_i, init_failed>>
poolVars == <<driver_queue, active_drivers, quitted, nextDriver>>
progVars == <<completed_tasks, failed_tasks>>
mainVars == <<results, yielded, main_pc, notified>>
histVars == <<attempts, calls, outstanding>>
\* the progress counters seen statement by statement
trackerVars == <<lock, wpc, wok, wtmp, rpc, snap, n_calls, f_calls, committed>>
\* the retry delays of one task, and one progress read, as pure computations
backoffVars == <<bk_base, bk_max, bk_r, bk_delay>>
snapshotVars == <<sn_total, sn_completed, sn_failed, sn_elapsed, sn_out>>
\* the API object, its runs and its polling thread
apiFields == <<is_scraping, current_task_id, results_cache, progress_data, scraper>>
runVars == <<run_pc, run_shutdown, run_results, progress_lock>>
apiVars == <<apiFields, api_lock, api_now, api_calls, api_op, api_ret, runVars, poll_pc>>
pureVars == <<backoffVars, snapshotVars, apiVars>>
\* no progress read yet
NoSnapshot == [success_rate |-> -1, elapsed_time |-> -1, estimated_remaining |-> -1]
\* a get_pool_status call seen statement by statement
statusVars == <<st_pc, st_available, st_active>>
\* the threads that call update_progress, and the one that reads the progress
Threads == 1 .. MaxWorkers
Reader == MaxWorkers + 1

\* ---------------------------------------------------------------- data
ScrapeResult(t, ok, msg) ==
    [task_id |-> t, url |-> Url(t), success |-> ok, error_message |-> msg]

NoneResult == [task_id |-> -1, url |-> -1, success |-> FALSE, error_message |-> NoneMsg]

Last(s) == s[Len(s)]
Front(s) == SubSeq(s, 1, Len(s) - 1)
SetLast(s, v) == [s EXCEPT ![Len(s)] = v]

\* results.sort(key=lambda x: x.task_id): a stable sort on task_id
RECURSIVE InsertByTaskId(_, _)
InsertByTaskId(r, s) ==
    IF s = <<>> THEN <<r>>
    ELSE IF r.task_id <= Head(s).task_id THEN <<r>> \o s
    ELSE <<Head(s)>> \o InsertByTaskId(r, Tail(s))

RECURSIVE SortByTaskId(_)
SortByTaskId(s) ==
    IF s = <<>> THEN <<>>
    ELSE InsertByTaskId(Head(s), SortByTaskId(Tail(s)))

\* ProgressTracker.update_progress / PremiumScraper._update_progress
update_progress(ok) ==
    /\ completed_tasks' = completed_tasks + 1
    /\ failed_tasks' = IF ok THEN failed_tasks ELSE failed_tasks + 1

\* ---------------------------------------------------------------- Init
\* The scraper's constructor up to DriverPool.__init__'s call of
\* _initialize_pool: any pool_size is accepted, the queue is empty
InitRun ==
    /\ variant \in {"multi", "premium"}
    /\ pool_size \in 0 .. PoolSize
    /\ max_workers \in 1 .. MaxWorkers
    /\ init_i = 0
    /\ init_failed = 0
    /\ notified = [r \in Tasks \cup {-1} |-> 0]
    /\ driver_queue = <<>>
    /\ nextDriver = 1
    /\ active_drivers = {}
    /\ quitted = {}
    /\ shutdown_event = FALSE
    /\ sd_pc = "idle"
    /\ rate_limiter = max_workers
    /\ tpc = [t \in Tasks |-> "queued"]
    /\ frames = [t \in Tasks |-> <<>>]
    /\ retry_count = [t \in Tasks |-> 0]
    /\ retval = [t \in Tasks |-> NoneResult]
    /\ completed_tasks = 0
    /\ failed_tasks = 0
    /\ results = <<>>
    /\ yielded = {}
    /\ main_pc = "loop"
    /\ attempts = [t \in Tasks |-> 0]
    /\ calls = [t \in Tasks |-> 0]
    /\ outstanding = [t \in Tasks |-> 0]
    /\ lock = 0
    /\ wpc = [w \in Threads |-> "idle"]
    /\ wok = [w \in Threads |-> TRUE]
    /\ wtmp = [w \in Threads |-> 0]
    /\ rpc = "idle"
    /\ snap = <<0, 0>>
    /\ n_calls = 0
    /\ f_calls = 0
    /\ committed = {<<0, 0>>}
    /\ st_pc = "idle"
    /\ st_available = 0
    /\ st_active = 0
    /\ is_scraping = FALSE
    /\ current_task_id = NoTaskId
    /\ results_cache = <<>>
    /\ progress_data = [total_tasks |-> 0, completed_tasks |-> 0]
    /\ scraper = NoScraper
    /\ api_lock = FALSE
    /\ api_now = 0
    /\ api_calls = 0
    /\ api_op = NoReturn
    /\ api_ret = NoReturn
    /\ run_pc = [r \in Runs |-> "none"]
    /\ run_shutdown = [r \in Runs |-> FALSE]
    /\ run_results = [r \in Runs |-> 0]
    /\ progress_lock = [r \in Runs |-> FALSE]
    /\ poll_pc = "idle"

\* a run of the default configuration: no retry delay yet, no progress read
Init ==
    /\ InitRun
    /\ bk_base = 2
    /\ bk_max = MaxRetries
    /\ bk_r = 0
    /\ bk_delay = 0
    /\ sn_total = NumTasks
    /\ sn_completed = 0
    /\ sn_failed = 0
    /\ sn_elapsed = 0
    /\ sn_out = NoSnapshot

\* ---------------------------------------------------------------- DriverPool
\* Queue.get(): the driver handed out and what stays queued
QueueHead(q) == Head(q)
\* (mutation: the driver is read from the queue without being taken out)
QueueAfterGet_Peek(q) == q
QueueAfterGet(q) == Tail(q)

\* (mutation: get() without a timeout, the caller waits until a driver comes)
QueueGetTimesOut_Never(q) == FALSE
\* Queue.get(timeout=timeout) raises Empty: nothing was queued during the wait
QueueGetTimesOut(q) == q = <<>>

\* return_driver: if driver in self.active_drivers: self.active_drivers.remove(driver)
\* (mutation: the returned driver stays in active_drivers)
ActiveAfterReturn_Kept(a, d) == a
ActiveAfterReturn(a, d) == a \ {d}

\* _is_driver_healthy(driver): reading current_url of a quit driver raises;
\* a live driver may have died on its own
HealthOutcomes(d) == IF d \in quitted THEN {FALSE} ELSE {TRUE, FALSE}

\* _create_driver() in return_driver: may raise; the model constructs at
\* most MaxDrivers drivers
CreateOutcomes == IF nextDriver <= MaxDrivers THEN {TRUE, FALSE} ELSE {FALSE}

\* (mutation: a failed construction ends the loop, `break` for `continue`)
AfterCreateFailure_Abort(i) == pool_size
\* _initialize_pool: `continue` after a construction that raised
AfterCreateFailure(i) == i + 1

\* _initialize_pool has returned, the scraper is constructed
Initialized == init_i = pool_size

\* _initialize_pool: one iteration of `for i in range(self.pool_size)`
InitializePool ==
    /\ init_i < pool_size
    /\ \E created \in CreateOutcomes :
         IF created
         THEN /\ driver_queue' = Append(driver_queue, nextDriver)
              /\ nextDriver' = nextDriver + 1
              /\ init_i' = init_i + 1
              /\ UNCHANGED init_failed
         ELSE /\ init_failed' = init_failed + 1
              /\ init_i' = AfterCreateFailure(init_i)
              /\ UNCHANGED <<driver_queue, nextDriver>>
    /\ UNCHANGED <<cfgVars, trackerVars, statusVars, pureVars, active_drivers, quitted, shutdown_event,
                   sd_pc, rate_limiter, tpc, frames, retry_count, retval,
                   progVars, mainVars, histVars>>

\* ---------------------------------------------------------------- unit of work
Running(t) == tpc[t] \notin {"queued", "finished"}

\* local variable `driver` of the innermost frame of task t
CurDriver(t) == Last(frames[t])

\* (mutation: the retry decision does not look at the shutdown event)
ShouldRetry_IgnoreShutdown(t) == retry_count[t] < MaxRetries
\* (mutation: off-by-one in the retry bound)
ShouldRetry_OffByOne(t) == retry_count[t] <= MaxRetries /\ ~shutdown_event
\* the retry decision of the except block
ShouldRetry(t) == retry_count[t] < MaxRetries /\ ~shutdown_event

\* progress update made by the worker itself (MultiThreadScraper only)
WorkerProgress(ok) ==
    IF variant = "multi" THEN update_progress(ok) ELSE UNCHANGED progVars

\* (mutation: no finally block, a frame that leaves through the except block
\* or through the shutdown check hands nothing back)
PendingFrames_NoFinally(fs) == <<>>
\* The frames whose finally block still has a driver to hand back: a frame
\* whose `driver` is None leaves through `if driver:` without doing anything.
PendingFrames(fs) ==
    LET held == {i \in 1 .. Len(fs) : fs[i] # NoDriver}
    IN  IF held = {} THEN <<>>
        ELSE SubSeq(fs, 1, CHOOSE i \in held : \A j \in held : j <= i)

\* the innermost frame returns; fs are the frames of t at that moment
Leave(t, fs) ==
    /\ frames' = [frames EXCEPT ![t] = PendingFrames(fs)]
    /\ tpc' = [tpc EXCEPT ![t] =
                  IF PendingFrames(fs) = <<>> THEN "finished" ELSE "finally"]

\* `with self.rate_limiter:` and the shutdown check of a frame whose drivers so
\* far are fs (the new frame's `driver` is None)
EnterFrame(t, fs) ==
    /\ rate_limiter > 0
    /\ IF shutdown_event
       THEN /\ retval' = [retval EXCEPT ![t] = NoneResult]
            /\ Leave(t, fs)
            /\ UNCHANGED <<rate_limiter, attempts>>
       ELSE /\ rate_limiter' = rate_limiter - 1
            /\ attempts' = [attempts EXCEPT ![t] = @ + 1]
            /\ frames' = [frames EXCEPT ![t] = Append(fs, NoDriver)]
            /\ tpc' = [tpc EXCEPT ![t] = "get"]
            /\ UNCHANGED retval

\* (mutation: the except block gives up without building an error result)
HandleException_Silent(t, msg) ==
    IF ShouldRetry(t)
    THEN /\ retry_count' = [retry_count EXCEPT ![t] = @ + 1]
         /\ tpc' = [tpc EXCEPT ![t] = "backoff"]
         /\ UNCHANGED <<frames, retval, progVars>>
    ELSE /\ retval' = [retval EXCEPT ![t] = NoneResult]
         /\ Leave(t, frames[t])
         /\ UNCHANGED <<retry_count, progVars>>

\* except Exception as e: retry through a recursive call, or the error result
HandleException(t, msg) ==
    IF ShouldRetry(t)
    THEN /\ retry_count' = [retry_count EXCEPT ![t] = @ + 1]
         /\ tpc' = [tpc EXCEPT ![t] = "backoff"]
         /\ UNCHANGED <<frames, retval, progVars>>
    ELSE /\ retval' = [retval EXCEPT ![t] = ScrapeResult(t, FALSE, msg)]
         /\ WorkerProgress(FALSE)
         /\ Leave(t, frames[t])
         /\ UNCHANGED retry_count

\* (mutation: the executor starts a thread for every submitted item)
WorkerFree_Unbounded == TRUE
\* ThreadPoolExecutor(max_workers): one of its threads is idle
WorkerFree == Cardinality({u \in Tasks : Running(u)}) < max_workers

\* a ThreadPoolExecutor thread takes the next work item of the FIFO work queue
\* and runs _scrape_single_url up to get_driver
StartTask(t) ==
    /\ Initialized
    /\ tpc[t] = "queued"
    /\ \A u \in Tasks : u < t => tpc[u] # "queued"
    /\ WorkerFree
    /\ EnterFrame(t, <<>>)
    /\ UNCHANGED <<cfgVars, initVars, trackerVars, statusVars, pureVars, poolVars, shutdown_event, sd_pc, retry_count,
                   progVars, mainVars, calls, outstanding>>

\* the backoff sleep is over: the recursive call runs up to get_driver
Retry(t) ==
    /\ tpc[t] = "backoff"
    /\ EnterFrame(t, frames[t])
    /\ UNCHANGED <<cfgVars, initVars, trackerVars, statusVars, pureVars, poolVars, shutdown_event, sd_pc, retry_count,
                   progVars, mainVars, calls, outstanding>>

\* get_driver: driver_queue.get(timeout) succeeds
GetDriver(t) ==
    /\ tpc[t] = "get"
    /\ driver_queue # <<>>
    /\ frames' = [frames EXCEPT ![t] = SetLast(@, QueueHead(driver_queue))]
    /\ driver_queue' = QueueAfterGet(driver_queue)
    /\ outstanding' = [outstanding EXCEPT ![t] = @ + 1]
    /\ tpc' = [tpc EXCEPT ![t] = "add"]
    /\ UNCHANGED <<cfgVars, initVars, trackerVars, statusVars, pureVars, active_drivers, quitted, nextDriver, shutdown_event,
                   sd_pc, rate_limiter, retry_count, retval, progVars,
                   mainVars, attempts, calls>>

\* get_driver: the queue stayed empty for the whole timeout; Empty becomes
\* Exception("No drivers available in pool"), which leaves the with block and
\* is handled by the except block
GetDriverTimeout(t) ==
    /\ tpc[t] = "get"
    /\ QueueGetTimesOut(driver_queue)
    /\ rate_limiter' = rate_limiter + 1
    /\ HandleException(t, PoolEmptyMsg)
    /\ UNCHANGED <<cfgVars, initVars, trackerVars, statusVars, pureVars, poolVars, shutdown_event, sd_pc, mainVars, histVars>>

\* get_driver: with self.lock: self.active_drivers.add(driver)
AddActive(t) ==
    /\ tpc[t] = "add"
    /\ active_drivers' = active_drivers \cup {CurDriver(t)}
    /\ tpc' = [tpc EXCEPT ![t] = "extract"]
    /\ UNCHANGED <<cfgVars, initVars, trackerVars, statusVars, pureVars, driver_queue, quitted, nextDriver, shutdown_event,
                   sd_pc, rate_limiter, frames, retry_count, retval,
                   progVars, mainVars, histVars>>

\* the rate-limit sleep, the Extractor call and the rest of the with block;
\* an exception of the Extractor is handled by the except block
Extract(t) ==
    /\ tpc[t] = "extract"
    /\ calls' = [calls EXCEPT ![t] = @ + 1]
    /\ rate_limiter' = rate_limiter + 1
    /\ \E outcome \in {"ok", "error", "raise"} :
         CASE outcome = "ok" ->
                /\ retval' = [retval EXCEPT ![t] = ScrapeResult(t, TRUE, NoneMsg)]
                /\ WorkerProgress(TRUE)
                /\ tpc' = [tpc EXCEPT ![t] = "finally"]
                /\ UNCHANGED <<frames, retry_count>>
           [] outcome = "error" ->
                /\ retval' = [retval EXCEPT ![t] = ScrapeResult(t, FALSE, ExtractErrorMsg)]
                /\ WorkerProgress(FALSE)
                /\ tpc' = [tpc EXCEPT ![t] = "finally"]
                /\ UNCHANGED <<frames, retry_count>>
           [] outcome = "raise" ->
                /\ HandleException(t, ExceptionMsg)
    /\ UNCHANGED <<cfgVars, initVars, trackerVars, statusVars, pureVars, poolVars, shutdown_event, sd_pc, mainVars,
                   attempts, outstanding>>

\* finally: return_driver(driver), first half: remove it from active_drivers
ReturnRemove(t) ==
    /\ tpc[t] = "finally"
    /\ active_drivers' = ActiveAfterReturn(active_drivers, CurDriver(t))
    /\ outstanding' = [outstanding EXCEPT ![t] = @ - 1]
    /\ tpc' = [tpc EXCEPT ![t] = "health"]
    /\ UNCHANGED <<cfgVars, initVars, trackerVars, statusVars, pureVars, driver_queue, quitted, nextDriver, shutdown_event,
                   sd_pc, rate_limiter, frames, retry_count, retval,
                   progVars, mainVars, attempts, calls>>

\* return_driver, second half: health check, then requeue or quit and replace;
\* after it the frame returns
ReturnHealth(t) ==
    /\ tpc[t] = "health"
    /\ \E healthy \in HealthOutcomes(CurDriver(t)) :
         IF healthy
         THEN /\ driver_queue' = Append(driver_queue, CurDriver(t))
              /\ UNCHANGED <<quitted, nextDriver>>
         ELSE /\ quitted' = quitted \cup {CurDriver(t)}
              /\ \E created \in CreateOutcomes :
                   IF created
                   THEN /\ driver_queue' = Append(driver_queue, nextDriver)
                        /\ nextDriver' = nextDriver + 1
                   ELSE UNCHANGED <<driver_queue, nextDriver>>
    /\ Leave(t, Front(frames[t]))
    /\ UNCHANGED <<cfgVars, initVars, trackerVars, statusVars, pureVars, active_drivers, shutdown_event, sd_pc, rate_limiter,
                   retry_count, retval, progVars, mainVars, histVars>>

\* ---------------------------------------------------------------- shutdown()
\* shutdown(): self.shutdown_event.set(), then driver_pool.cleanup() starts
Shutdown ==
    /\ Initialized
    /\ sd_pc = "idle"
    /\ shutdown_event' = TRUE
    /\ sd_pc' = "active"
    /\ UNCHANGED <<cfgVars, initVars, trackerVars, statusVars, pureVars, poolVars, rate_limiter, tpc, frames, retry_count,
                   retval, progVars, mainVars, histVars>>

\* cleanup(): quit every driver of active_drivers and clear the set
CleanupActive ==
    /\ sd_pc = "active"
    /\ quitted' = quitted \cup active_drivers
    /\ active_drivers' = {}
    /\ sd_pc' = "queue"
    /\ UNCHANGED <<cfgVars, initVars, trackerVars, statusVars, pureVars, driver_queue, nextDriver, shutdown_event,
                   rate_limiter, tpc, frames, retry_count, retval,
                   progVars, mainVars, histVars>>

\* cleanup(): one iteration of `while not self.driver_queue.empty()`
CleanupQueue ==
    /\ sd_pc = "queue"
    /\ IF driver_queue = <<>>
       THEN /\ sd_pc' = "done"
            /\ UNCHANGED <<driver_queue, quitted>>
       ELSE /\ quitted' = quitted \cup {Head(driver_queue)}
            /\ driver_queue' = Tail(driver_queue)
            /\ UNCHANGED sd_pc
    /\ UNCHANGED <<cfgVars, initVars, trackerVars, statusVars, pureVars, active_drivers, nextDriver, shutdown_event,
                   rate_limiter, tpc, frames, retry_count, retval,
                   progVars, mainVars, histVars>>

\* ---------------------------------------------------------------- scrape_urls
\* position after an iteration that yielded the futures ys
AfterIteration(ys) == IF ys = Tasks THEN "join" ELSE "loop"

\* MultiThreadScraper: one iteration of `for future in as_completed(...)`;
\* what the progress callback does has no effect on the scraper's state
CollectMulti(t) ==
    /\ variant = "multi"
    /\ main_pc = "loop"
    /\ tpc[t] = "finished"
    /\ t \notin yielded
    /\ IF shutdown_event
       THEN /\ main_pc' = "join"
            /\ UNCHANGED <<results, yielded, notified>>
       ELSE /\ results' = IF retval[t] # NoneResult
                           THEN Append(results, retval[t]) ELSE results
            /\ notified' = [notified EXCEPT ![retval[t].task_id] = @ + 1]
            /\ yielded' = yielded \cup {t}
            /\ main_pc' = AfterIteration(yielded \cup {t})
    /\ UNCHANGED <<cfgVars, initVars, trackerVars, statusVars, pureVars, poolVars, shutdown_event, sd_pc, rate_limiter, tpc,
                   frames, retry_count, retval, progVars, histVars>>

\* PremiumScraper: one iteration of the loop; the progress callback may raise,
\* which the except clause answers with an error result of its own
CollectPremium(t) ==
    /\ variant = "premium"
    /\ main_pc = "loop"
    /\ tpc[t] = "finished"
    /\ t \notin yielded
    /\ IF shutdown_event
       THEN /\ main_pc' = "join"
            /\ UNCHANGED <<results, yielded, notified, progVars>>
       ELSE /\ yielded' = yielded \cup {t}
            /\ main_pc' = AfterIteration(yielded \cup {t})
            /\ IF retval[t] = NoneResult
               THEN UNCHANGED <<results, notified, progVars>>
               ELSE /\ notified' = [notified EXCEPT ![t] = @ + 1]
                    /\ \E callbackRaises \in BOOLEAN :
                        IF callbackRaises
                        THEN /\ results' = results \o
                                    <<retval[t], ScrapeResult(t, FALSE, ExceptionMsg)>>
                             /\ completed_tasks' = completed_tasks + 2
                             /\ failed_tasks' = failed_tasks + 1 +
                                    (IF retval[t].success THEN 0 ELSE 1)
                        ELSE /\ results' = Append(results, retval[t])
                             /\ update_progress(retval[t].success)
    /\ UNCHANGED <<cfgVars, initVars, trackerVars, statusVars, pureVars, poolVars, shutdown_event, sd_pc, rate_limiter, tpc,
                   frames, retry_count, retval, histVars>>

\* (mutation: the executor is left without waiting for its workers)
Joined_NoWait == TRUE
\* ThreadPoolExecutor.__exit__: shutdown(wait=True) has joined every worker
Joined == \A t \in Tasks : tpc[t] = "finished"

\* the executor's with block ends (shutdown(wait=True) joins every worker),
\* the results are sorted and returned; PremiumScraper delivers the final
\* callback first and returns [] when it raises
Return ==
    /\ main_pc = "join"
    /\ Joined
    /\ main_pc' = "done"
    /\ IF variant = "multi"
       THEN /\ results' = SortByTaskId(results)
            /\ UNCHANGED notified
       ELSE /\ notified' = [notified EXCEPT ![-1] = @ + 1]
            /\ \E callbackRaises \in BOOLEAN :
                 results' = IF callbackRaises THEN <<>> ELSE SortByTaskId(results)
    /\ UNCHANGED <<cfgVars, initVars, trackerVars, statusVars, pureVars, poolVars, shutdown_event, sd_pc, rate_limiter, tpc,
                   frames, retry_count, retval, progVars, yielded, histVars>>

\* ---------------------------------------------------------------- specification
Next ==
    \/ InitializePool
    \/ \E t \in Tasks : StartTask(t)
    \/ \E t \in Tasks : Retry(t)
    \/ \E t \in Tasks : GetDriver(t)
    \/ \E t \in Tasks : GetDriverTimeout(t)
    \/ \E t \in Tasks : AddActive(t)
    \/ \E t \in Tasks : Extract(t)
    \/ \E t \in Tasks : ReturnRemove(t)
    \/ \E t \in Tasks : ReturnHealth(t)
    \/ Shutdown
    \/ CleanupActive
    \/ CleanupQueue
    \/ \E t \in Tasks : CollectMulti(t)
    \/ \E t \in Tasks : CollectPremium(t)
    \/ Return

Spec == Init /\ [][Next]_vars

\* the steps of the threads of a run: the constructor, the executor's workers
\* and the thread inside scrape_urls; shutdown() is a call nobody has to make
RunStep ==
    \/ InitializePool
    \/ \E t \in Tasks : StartTask(t)
    \/ \E t \in Tasks : Retry(t)
    \/ \E t \in Tasks : GetDriver(t)
    \/ \E t \in Tasks : GetDriverTimeout(t)
    \/ \E t \in Tasks : AddActive(t)
    \/ \E t \in Tasks : Extract(t)
    \/ \E t \in Tasks : ReturnRemove(t)
    \/ \E t \in Tasks : ReturnHealth(t)
    \/ \E t \in Tasks : CollectMulti(t)
    \/ \E t \in Tasks : CollectPremium(t)
    \/ Return

\* a run whose threads keep being scheduled and whose Extractor calls, sleeps
\* and callbacks return
SpecLive == Init /\ [][Next]_vars /\ WF_vars(RunStep)

\* ---------------------------------------------------------------- get_pool_status
\* get_pool_status() called from another thread while the workers and
\* shutdown() run; it takes no lock, so each entry of the dict is a step.
\* 'available_drivers': self.driver_queue.qsize()
StatusReadQueue ==
    /\ Initialized
    /\ st_pc \in {"idle", "done"}
    /\ st_available' = Len(driver_queue)
    /\ st_pc' = "qsize"
    /\ UNCHANGED <<cfgVars, initVars, trackerVars, pureVars, poolVars, shutdown_event, sd_pc,
                   rate_limiter, tpc, frames, retry_count, retval, progVars,
                   mainVars, histVars, st_active>>

\* 'active_drivers': len(self.active_drivers), read after qsize() returned
StatusReadActive ==
    /\ st_pc = "qsize"
    /\ st_active' = Cardinality(active_drivers)
    /\ st_pc' = "done"
    /\ UNCHANGED <<cfgVars, initVars, trackerVars, pureVars, poolVars, shutdown_event, sd_pc,
                   rate_limiter, tpc, frames, retry_count, retval, progVars,
                   mainVars, histVars, st_available>>

\* the workers of a MultiThreadScraper run, shutdown() and the status calls
InitStatus == Init /\ variant = "multi"

NextStatus ==
    \/ InitializePool
    \/ \E t \in Tasks : StartTask(t)
    \/ \E t \in Tasks : Retry(t)
    \/ \E t \in Tasks : GetDriver(t)
    \/ \E t \in Tasks : GetDriverTimeout(t)
    \/ \E t \in Tasks : AddActive(t)
    \/ \E t \in Tasks : Extract(t)
    \/ \E t \in Tasks : ReturnRemove(t)
    \/ \E t \in Tasks : ReturnHealth(t)
    \/ Shutdown
    \/ CleanupActive
    \/ CleanupQueue
    \/ StatusReadQueue
    \/ StatusReadActive

SpecStatus == InitStatus /\ [][NextStatus]_vars

\* ---------------------------------------------------------------- progress counters
\* update_progress and the progress reads, one statement at a time, with the
\* scraper at rest: `x += 1` is a load followed by a store.
scraperVars == <<pool_size, max_workers, initVars, statusVars, pureVars, poolVars, shutdown_event, sd_pc, rate_limiter, tpc,
                 frames, retry_count, retval, mainVars, histVars>>

\* MultiThreadScraper: every worker thread calls update_progress;
\* PremiumScraper: only the thread running scrape_urls calls _update_progress
Updaters == IF variant = "multi" THEN Threads ELSE {1}

\* (mutation: the with-statement does not wait for the lock)
LockFree_Always == TRUE
LockFree == lock = 0

\* calls of update_progress begun so far: one per task
CallsStarted == n_calls + Cardinality({w \in Threads : wpc[w] # "idle"})

\* with self.lock:
Acquire(w, ok) ==
    /\ w \in Updaters
    /\ wpc[w] = "idle"
    /\ CallsStarted < NumTasks
    /\ LockFree
    /\ lock' = w
    /\ wpc' = [wpc EXCEPT ![w] = "load_c"]
    /\ wok' = [wok EXCEPT ![w] = ok]
    /\ UNCHANGED <<variant, scraperVars, progVars, wtmp, rpc, snap, n_calls,
                   f_calls, committed>>

\* self.completed_tasks += 1 (load)
LoadCompleted(w) ==
    /\ wpc[w] = "load_c"
    /\ wtmp' = [wtmp EXCEPT ![w] = completed_tasks]
    /\ wpc' = [wpc EXCEPT ![w] = "store_c"]
    /\ UNCHANGED <<variant, scraperVars, progVars, lock, wok, rpc, snap, n_calls,
                   f_calls, committed>>

\* self.completed_tasks += 1 (store); if not success:
StoreCompleted(w) ==
    /\ wpc[w] = "store_c"
    /\ completed_tasks' = wtmp[w] + 1
    /\ wpc' = [wpc EXCEPT ![w] = IF wok[w] THEN "release" ELSE "load_f"]
    /\ UNCHANGED <<variant, scraperVars, failed_tasks, lock, wok, wtmp, rpc, snap,
                   n_calls, f_calls, committed>>

\* self.failed_tasks += 1 (load)
LoadFailed(w) ==
    /\ wpc[w] = "load_f"
    /\ wtmp' = [wtmp EXCEPT ![w] = failed_tasks]
    /\ wpc' = [wpc EXCEPT ![w] = "store_f"]
    /\ UNCHANGED <<variant, scraperVars, progVars, lock, wok, rpc, snap, n_calls,
                   f_calls, committed>>

\* self.failed_tasks += 1 (store)
StoreFailed(w) ==
    /\ wpc[w] = "store_f"
    /\ failed_tasks' = wtmp[w] + 1
    /\ wpc' = [wpc EXCEPT ![w] = "release"]
    /\ UNCHANGED <<variant, scraperVars, completed_tasks, lock, wok, wtmp, rpc,
                   snap, n_calls, f_calls, committed>>

\* end of the with-block: the lock is released and the call returns
Release(w) ==
    /\ wpc[w] = "release"
    /\ lock' = 0
    /\ wpc' = [wpc EXCEPT ![w] = "idle"]
    /\ n_calls' = n_calls + 1
    /\ f_calls' = IF wok[w] THEN f_calls ELSE f_calls + 1
    /\ committed' = committed \cup {<<completed_tasks, failed_tasks>>}
    /\ UNCHANGED <<variant, scraperVars, progVars, wok, wtmp, rpc, snap>>

\* ProgressTracker.get_progress keeps the lock over its reads;
\* PremiumScraper.get_progress takes progress_lock, returns the ProgressData
\* object itself and releases the lock before the caller reads any field
ReadAcquire ==
    /\ rpc \in {"idle", "done"}
    /\ LockFree
    /\ lock' = IF variant = "multi" THEN Reader ELSE lock
    /\ rpc' = "read_c"
    /\ UNCHANGED <<variant, scraperVars, progVars, wpc, wok, wtmp, snap, n_calls,
                   f_calls, committed>>

\* 'completed_tasks': self.completed_tasks / progress.completed_tasks
ReadCompleted ==
    /\ rpc = "read_c"
    /\ snap' = <<completed_tasks, snap[2]>>
    /\ rpc' = "read_f"
    /\ UNCHANGED <<variant, scraperVars, progVars, lock, wpc, wok, wtmp, n_calls,
                   f_calls, committed>>

\* 'failed_tasks': self.failed_tasks / progress.failed_tasks, and the return
ReadFailed ==
    /\ rpc = "read_f"
    /\ snap' = <<snap[1], failed_tasks>>
    /\ rpc' = "done"
    /\ lock' = IF variant = "multi" THEN 0 ELSE lock
    /\ UNCHANGED <<variant, scraperVars, progVars, wpc, wok, wtmp, n_calls,
                   f_calls, committed>>

\* the largest configuration, no scraping step taken
InitTracker ==
    /\ Init
    /\ pool_size = PoolSize
    /\ max_workers = MaxWorkers

NextTracker ==
    \/ \E w \in Threads : \E ok \in BOOLEAN : Acquire(w, ok)
    \/ \E w \in Threads : LoadCompleted(w)
    \/ \E w \in Threads : StoreCompleted(w)
    \/ \E w \in Threads : LoadFailed(w)
    \/ \E w \in Threads : StoreFailed(w)
    \/ \E w \in Threads : Release(w)
    \/ ReadAcquire
    \/ ReadCompleted
    \/ ReadFailed

SpecTracker == InitTracker /\ [][NextTracker]_vars

\* ---------------------------------------------------------------- retry delay
Min2(a, b) == IF a <= b THEN a ELSE b
Max2(a, b) == IF a >= b THEN a ELSE b

\* b ** r
RECURSIVE Pow(_, _)
Pow(b, r) == IF r = 0 THEN 1 ELSE b * Pow(b, r - 1)

\* (mutation: the delay is not capped)
RetryDelay_Uncapped(b, r) == Pow(b, r)
\* retry_delay = min(2 ** task.retry_count, 10) /
\* min(self.config.retry_delay_base ** task.retry_count, 10)
RetryDelay(b, r) == Min2(Pow(b, r), BackoffCeiling)

\* everything but the retry delays / the progress read
notBackoff == <<cfgVars, initVars, trackerVars, statusVars, snapshotVars, apiVars, poolVars,
                shutdown_event, sd_pc, rate_limiter, tpc, frames, retry_count,
                retval, progVars, mainVars, histVars>>
notSnapshot == <<cfgVars, initVars, trackerVars, statusVars, backoffVars, apiVars, poolVars,
                 shutdown_event, sd_pc, rate_limiter, tpc, frames, retry_count,
                 retval, progVars, mainVars, histVars>>

\* the except block of a failed attempt that decides to retry:
\* task.retry_count += 1, then the delay is computed from the new count
FailedAttempt ==
    /\ bk_r < bk_max
    /\ bk_r' = bk_r + 1
    /\ bk_delay' = RetryDelay(bk_base, bk_r + 1)
    /\ UNCHANGED <<bk_base, bk_max, notBackoff>>

\* MultiThreadScraper uses the literal base 2, PremiumScraper its configured
\* base; max_retries is the caller's
InitBackoff ==
    /\ InitRun
    /\ pool_size = PoolSize
    /\ max_workers = MaxWorkers
    /\ bk_base \in (IF variant = "multi" THEN {2} ELSE 2 .. MaxBase)
    /\ bk_max \in 0 .. MaxRetryBound
    /\ bk_r = 0
    /\ bk_delay = 0
    /\ sn_total = NumTasks
    /\ sn_completed = 0
    /\ sn_failed = 0
    /\ sn_elapsed = 0
    /\ sn_out = NoSnapshot

NextBackoff == FailedAttempt

SpecBackoff == InitBackoff /\ [][NextBackoff]_vars

\* ---------------------------------------------------------------- progress snapshot
\* Quantities with decimals are kept in hundredths. round(num / den, 2), in
\* hundredths (ties go to the even hundredth)
Round2(num, den) ==
    LET q == (100 * num) \div den
        rem == (100 * num) % den
    IN  IF 2 * rem > den THEN q + 1
        ELSE IF 2 * rem = den THEN q + (q % 2)
        ELSE q

\* ProgressTracker._estimate_remaining_time(elapsed_time)
estimate_remaining_time(elapsed) ==
    IF sn_completed = 0 THEN 0
    ELSE Round2(elapsed * (sn_total - sn_completed), sn_completed)

\* ProgressTracker.get_progress(): computed from the counters at the read
TrackerProgress ==
    [success_rate |-> Round2((sn_completed - sn_failed) * 100, Max2(sn_completed, 1)),
     elapsed_time |-> Round2(sn_elapsed, 1),
     estimated_remaining |-> estimate_remaining_time(sn_elapsed)]

\* PremiumScraper: the fields as the last _update_progress stored them;
\* `_start_time` is set nowhere, so getattr yields time.time() and the stored
\* elapsed time is 0, and with it the estimate
PremiumProgress ==
    [success_rate |-> IF sn_completed > 0
                      THEN Round2((sn_completed - sn_failed) * 100, sn_completed)
                      ELSE 0,
     elapsed_time |-> 0,
     estimated_remaining |-> 0]

\* a progress read: tracker.get_progress() / get_premium_progress()
GetProgress ==
    /\ sn_out = NoSnapshot
    /\ sn_out' = IF variant = "multi" THEN TrackerProgress ELSE PremiumProgress
    /\ UNCHANGED <<sn_total, sn_completed, sn_failed, sn_elapsed, notSnapshot>>

InitSnapshot ==
    /\ InitRun
    /\ pool_size = PoolSize
    /\ max_workers = MaxWorkers
    /\ bk_base = 2
    /\ bk_max = MaxRetries
    /\ bk_r = 0
    /\ bk_delay = 0
    /\ sn_total \in 1 .. MaxTotal
    /\ sn_completed \in 0 .. sn_total
    /\ sn_failed \in 0 .. sn_completed
    /\ sn_elapsed \in 0 .. MaxElapsed
    /\ sn_out = NoSnapshot

NextSnapshot == GetProgress

SpecSnapshot == InitSnapshot /\ [][NextSnapshot]_vars

\* ---------------------------------------------------------------- the API object
\* MultiThreadApi / PremiumApi: calls arrive on the UI's threads; each accepted
\* start_scraping is a run r: the rest of the call, the scraper object it builds
\* and the scraping_worker thread it starts. scrape_urls is followed at its
\* collecting loop only.
notApi == <<cfgVars, initVars, trackerVars, statusVars, backoffVars, snapshotVars,
            poolVars, shutdown_event, sd_pc, rate_limiter, tpc, frames, retry_count,
            retval, progVars, mainVars, histVars>>

\* the run an accepted start_scraping becomes
NextRun == CHOOSE r \in Runs : run_pc[r] = "none" /\ \A q \in Runs : q < r => run_pc[q] # "none"

\* (mutation: start_scraping never finds a run in progress)
StartRejected_Never(flag) == FALSE
\* start_scraping: `if self.is_scraping: return {'success': False, ...}`
StartRejected(flag) == flag

\* stop_scraping: `if not self.is_scraping: return {'success': False, ...}`
StopRejected(flag) == ~flag

\* the scraping_worker thread of run r has been started and has not finished
Alive(r) == run_pc[r] \in {"started", "loop", "callback", "final", "final_callback", "return"}

\* results of scrape_urls of run r
RunResults(r) == [i \in 1 .. run_results[r] |-> r]

\* start_scraping, the block under self.lock: reject, or mark the run started
StartScraping ==
    /\ ~api_lock
    /\ api_calls < MaxApiCalls
    /\ api_calls' = api_calls + 1
    /\ api_op' = "start"
    /\ IF StartRejected(is_scraping)
       THEN /\ api_ret' = AlreadyRunningMsg
            /\ UNCHANGED <<apiFields, api_now, runVars>>
       ELSE /\ \E r \in Runs : run_pc[r] = "none"
            /\ \E t \in api_now .. MaxTime :
                /\ api_now' = t
                /\ current_task_id' = t
            /\ is_scraping' = TRUE
            /\ results_cache' = <<>>
            /\ progress_data' =
                  IF variant = "multi"
                  THEN [total_tasks |-> NumTasks, completed_tasks |-> 0]
                  ELSE progress_data
            /\ run_pc' = [run_pc EXCEPT ![NextRun] = "accepted"]
            /\ UNCHANGED <<scraper, api_ret, run_shutdown, run_results, progress_lock>>
    /\ UNCHANGED <<notApi, api_lock, poll_pc>>

\* start_scraping after the lock: build the scraper, start the thread, return
LaunchThread(r) ==
    /\ run_pc[r] = "accepted"
    /\ scraper' = r
    /\ run_pc' = [run_pc EXCEPT ![r] = "started"]
    /\ api_ret' = OkMsg
    /\ UNCHANGED <<notApi, is_scraping, current_task_id, results_cache, progress_data,
                   api_lock, api_now, api_calls, api_op, run_shutdown, run_results,
                   progress_lock, poll_pc>>

\* start_scraping after the lock: the configuration or the scraper's
\* construction raises; the except clause resets is_scraping under the lock
LaunchFails(r) ==
    /\ run_pc[r] = "accepted"
    /\ ~api_lock
    /\ is_scraping' = FALSE
    /\ run_pc' = [run_pc EXCEPT ![r] = "done"]
    /\ api_ret' = ExceptionMsg
    /\ UNCHANGED <<notApi, current_task_id, results_cache, progress_data, scraper,
                   api_lock, api_now, api_calls, api_op, run_shutdown, run_results,
                   progress_lock, poll_pc>>

\* scraping_worker enters scrape_urls; PremiumScraper clears its shutdown_event
BeginScrape(r) ==
    /\ run_pc[r] = "started"
    /\ run_pc' = [run_pc EXCEPT ![r] = "loop"]
    /\ run_shutdown' = IF variant = "premium"
                       THEN [run_shutdown EXCEPT ![r] = FALSE]
                       ELSE run_shutdown
    /\ UNCHANGED <<notApi, apiFields, api_lock, api_now, api_calls, api_op, api_ret,
                   run_results, progress_lock, poll_pc>>

\* MultiThreadScraper: one iteration of the collecting loop: the Result is
\* appended and the API's callback stores the progress and the Result under self.lock
CollectNotify(r) ==
    /\ variant = "multi"
    /\ run_pc[r] = "loop"
    /\ run_results[r] < NumTasks
    /\ ~run_shutdown[r]
    /\ ~api_lock
    /\ run_results' = [run_results EXCEPT ![r] = @ + 1]
    /\ results_cache' = Append(results_cache, r)
    /\ \E k \in (run_results[r] + 1) .. NumTasks :
          progress_data' = [total_tasks |-> NumTasks, completed_tasks |-> k]
    /\ UNCHANGED <<notApi, is_scraping, current_task_id, scraper, api_lock, api_now,
                   api_calls, api_op, api_ret, run_pc, run_shutdown, progress_lock, poll_pc>>

\* PremiumScraper: one iteration of the collecting loop up to
\* `with self.progress_lock:` around the callback
CallbackLock(r) ==
    /\ variant = "premium"
    /\ run_pc[r] = "loop"
    /\ run_results[r] < NumTasks
    /\ ~run_shutdown[r]
    /\ ~progress_lock[r]
    /\ run_results' = [run_results EXCEPT ![r] = @ + 1]
    /\ progress_lock' = [progress_lock EXCEPT ![r] = TRUE]
    /\ run_pc' = [run_pc EXCEPT ![r] = "callback"]
    /\ UNCHANGED <<notApi, apiFields, api_lock, api_now, api_calls, api_op, api_ret,
                   run_shutdown, poll_pc>>

\* PremiumApi's callback: `with self.lock: self.results_cache.append(result)`,
\* then progress_lock is released
CallbackRun(r) ==
    /\ run_pc[r] = "callback"
    /\ ~api_lock
    /\ results_cache' = Append(results_cache, r)
    /\ progress_lock' = [progress_lock EXCEPT ![r] = FALSE]
    /\ run_pc' = [run_pc EXCEPT ![r] = "loop"]
    /\ UNCHANGED <<notApi, is_scraping, current_task_id, progress_data, scraper, api_lock,
                   api_now, api_calls, api_op, api_ret, run_shutdown, run_results, poll_pc>>

\* the collecting loop ends: every future was handled, or shutdown_event is set
LeaveLoop(r) ==
    /\ run_pc[r] = "loop"
    /\ run_results[r] = NumTasks \/ run_shutdown[r]
    /\ run_pc' = [run_pc EXCEPT ![r] = IF variant = "multi" THEN "return" ELSE "final"]
    /\ UNCHANGED <<notApi, apiFields, api_lock, api_now, api_calls, api_op, api_ret,
                   run_shutdown, run_results, progress_lock, poll_pc>>

\* PremiumScraper: `with self.progress_lock:` of the final progress update
FinalLock(r) ==
    /\ run_pc[r] = "final"
    /\ ~progress_lock[r]
    /\ progress_lock' = [progress_lock EXCEPT ![r] = TRUE]
    /\ run_pc' = [run_pc EXCEPT ![r] = "final_callback"]
    /\ UNCHANGED <<notApi, apiFields, api_lock, api_now, api_calls, api_op, api_ret,
                   run_shutdown, run_results, poll_pc>>

\* the final callback (result None): PremiumApi's callback takes self.lock
\* and appends nothing
FinalRun(r) ==
    /\ run_pc[r] = "final_callback"
    /\ ~api_lock
    /\ progress_lock' = [progress_lock EXCEPT ![r] = FALSE]
    /\ run_pc' = [run_pc EXCEPT ![r] = "return"]
    /\ UNCHANGED <<notApi, apiFields, api_lock, api_now, api_calls, api_op, api_ret,
                   run_shutdown, run_results, poll_pc>>

\* scraping_worker after scrape_urls has returned:
\* `with self.lock: self.results_cache = results; self.is_scraping = False`
WorkerDone(r) ==
    /\ run_pc[r] = "return"
    /\ ~api_lock
    /\ results_cache' = RunResults(r)
    /\ is_scraping' = FALSE
    /\ run_pc' = [run_pc EXCEPT ![r] = "done"]
    /\ UNCHANGED <<notApi, current_task_id, progress_data, scraper, api_lock, api_now,
                   api_calls, api_op, api_ret, run_shutdown, run_results, progress_lock,
                   poll_pc>>

\* stop_scraping, all of it under self.lock: reject, or shut the current
\* scraper down and clear is_scraping
StopScraping ==
    /\ ~api_lock
    /\ api_calls < MaxApiCalls
    /\ api_calls' = api_calls + 1
    /\ api_op' = "stop"
    /\ IF StopRejected(is_scraping)
       THEN /\ api_ret' = NotRunningMsg
            /\ UNCHANGED <<is_scraping, run_shutdown>>
       ELSE /\ api_ret' = OkMsg
            /\ is_scraping' = FALSE
            /\ run_shutdown' = IF scraper # NoScraper
                               THEN [run_shutdown EXCEPT ![scraper] = TRUE]
                               ELSE run_shutdown
    /\ UNCHANGED <<notApi, current_task_id, results_cache, progress_data, scraper,
                   api_lock, api_now, run_pc, run_results, progress_lock, poll_pc>>

\* get_progress / get_premium_progress: `with self.lock:`
PollAcquire ==
    /\ poll_pc = "idle"
    /\ ~api_lock
    /\ api_lock' = TRUE
    /\ poll_pc' = "locked"
    /\ UNCHANGED <<notApi, apiFields, api_now, api_calls, api_op, api_ret, runVars>>

\* the polling thread waits for PremiumScraper.progress_lock inside get_progress
PollWaits ==
    /\ variant = "premium"
    /\ scraper # NoScraper
    /\ progress_lock[scraper]

\* the body under self.lock: MultiThreadApi copies its fields; PremiumApi calls
\* self.scraper.get_progress(), which takes progress_lock; self.lock is released
PollRead ==
    /\ poll_pc = "locked"
    /\ ~PollWaits
    /\ api_lock' = FALSE
    /\ poll_pc' = "idle"
    /\ UNCHANGED <<notApi, apiFields, api_now, api_calls, api_op, api_ret, runVars>>

InitApi ==
    /\ Init
    /\ pool_size = PoolSize
    /\ max_workers = MaxWorkers

NextApi ==
    \/ StartScraping
    \/ StopScraping
    \/ PollAcquire
    \/ PollRead
    \/ \E r \in Runs :
        \/ LaunchThread(r)
        \/ LaunchFails(r)
        \/ BeginScrape(r)
        \/ CollectNotify(r)
        \/ CallbackLock(r)
        \/ CallbackRun(r)
        \/ LeaveLoop(r)
        \/ FinalLock(r)
        \/ FinalRun(r)
        \/ WorkerDone(r)

SpecApi == InitApi /\ [][NextApi]_vars

\* ---------------------------------------------------------------- properties
Returned == main_pc = "done"

\* number of Results of task t in a list
CountOf(rs, t) == Cardinality({i \in 1 .. Len(rs) : rs[i].task_id = t})

\* drivers a task's frames hold
HeldBy(t) == {i \in 1 .. Len(frames[t]) : frames[t][i] # NoDriver}

\* number of frames, over all tasks, that hold driver d
Holders(d) ==
    Cardinality({p \in Tasks \X (1 .. (MaxRetries + 1)) :
                    p[2] <= Len(frames[p[1]]) /\ frames[p[1]][p[2]] = d})

HasResult(t) == tpc[t] = "finished" /\ retval[t] # NoneResult

\* C1: when a run that was not shut down returns, the i-th Result of the
\* returned list is the Result of the i-th target (task_id i, url urls[i]).
C1_InputOrder ==
    (Returned /\ ~shutdown_event) =>
        \A i \in 1 .. Len(results) :
            results[i].task_id = i - 1 /\ results[i].url = Url(i - 1)

\* C1 restricted to MultiThreadScraper, where it holds
C1_InputOrderMulti == variant = "multi" => C1_InputOrder

\* C2: a run that was not shut down returns one Result per target; a run that
\* was shut down returns at most that many.
C2_ResultCount ==
    Returned =>
        IF shutdown_event THEN Len(results) <= NumTasks
                          ELSE Len(results) = NumTasks

\* C2 restricted to MultiThreadScraper, where it holds
C2_ResultCountMulti == variant = "multi" => C2_ResultCount

\* C3: the results list never holds two Results of one task, and the
\* completed_tasks counter never counts more than the tasks that produced a
\* Result.
C3_OneResultPerTask ==
    /\ \A t \in Tasks : CountOf(results, t) <= 1
    /\ completed_tasks <= Cardinality({t \in Tasks : retval[t] # NoneResult})

\* C3 restricted to MultiThreadScraper, where it holds
C3_OneResultPerTaskMulti == variant = "multi" => C3_OneResultPerTask

\* C4: queued drivers plus active drivers never exceed pool_size, and neither
\* does the number of active drivers alone.
C4_PoolBound ==
    /\ Len(driver_queue) + Cardinality(active_drivers) <= pool_size
    /\ Cardinality(active_drivers) <= pool_size

C4_Witness == Cardinality(active_drivers) = pool_size /\ pool_size >= 2

\* C5: a driver handed out by get_driver is held by exactly one frame of one
\* task until return_driver has taken it back; it is not queued meanwhile.
C5_ExclusiveHold ==
    \A d \in Drivers :
        /\ Holders(d) <= 1
        /\ Holders(d) = 1 => \A i \in 1 .. Len(driver_queue) : driver_queue[i] # d

C5_Witness ==
    \E t, u \in Tasks :
        /\ t # u
        /\ tpc[t] = "extract" /\ tpc[u] = "extract"
        /\ CurDriver(t) # CurDriver(u)

\* C6: a task never holds more than one checked-out driver, also while it
\* retries.
C6_OneDriverPerTask == \A t \in Tasks : Cardinality(HeldBy(t)) <= 1

\* C7: a unit of work that has ended has passed every driver it obtained to
\* return_driver exactly once, and when scrape_urls returns active_drivers is
\* empty.
C7_AllReturned ==
    /\ \A t \in Tasks : outstanding[t] >= 0
    /\ \A t \in Tasks : tpc[t] = "finished" => outstanding[t] = 0 /\ frames[t] = <<>>
    /\ Returned => active_drivers = {}

C7_Witness ==
    /\ Returned
    /\ \E t \in Tasks : calls[t] >= 2 /\ retval[t] # NoneResult /\ ~retval[t].success

\* C8: retry_count never exceeds max_retries, a task makes at most
\* max_retries + 1 attempts, and the Extractor is invoked at most once per
\* attempt.
C8_BoundedRetries ==
    \A t \in Tasks :
        /\ retry_count[t] <= MaxRetries
        /\ attempts[t] <= retry_count[t] + 1
        /\ attempts[t] <= MaxRetries + 1
        /\ calls[t] <= attempts[t]

C8_Witness ==
    \E t \in Tasks :
        tpc[t] = "finished" /\ attempts[t] = MaxRetries + 1 /\ calls[t] = MaxRetries + 1

\* C9: without shutdown, a failure of the Extractor is retried while
\* retry_count < max_retries: no task is finalized as failed with retries left.
C9_FailureRetried ==
    \A t \in Tasks :
        (HasResult(t) /\ ~retval[t].success /\ ~shutdown_event)
            => retry_count[t] = MaxRetries

\* C10: without shutdown, a task whose Extractor always failed has made
\* exactly max_retries + 1 attempts and ends as a failed Result with an error
\* message.
C10_FailedAfterAllAttempts ==
    \A t \in Tasks :
        (HasResult(t) /\ ~retval[t].success /\ ~shutdown_event)
            => attempts[t] = MaxRetries + 1 /\ retval[t].error_message # NoneMsg

\* drivers constructed so far
Constructed == 1 .. (nextDriver - 1)

C12_NoResultLost ==
    (Returned /\ shutdown_event) =>
        /\ \A t \in Tasks : HasResult(t) => CountOf(results, t) >= 1
        /\ \A i, j \in 1 .. Len(results) :
              i < j => results[i].task_id <= results[j].task_id

\* C13: when scrape_urls returns after a shutdown, no unit of work is running
\* and none is still queued.
C13_DrainedAtReturn ==
    (Returned /\ shutdown_event) =>
        \A t \in Tasks : ~Running(t) /\ tpc[t] # "queued"

\* the loop was left early and a task that was never collected had started
C13_Witness ==
    /\ Returned
    /\ shutdown_event
    /\ \E t \in Tasks : t \notin yielded /\ attempts[t] >= 1 /\ tpc[t] = "finished"

\* C14: a driver that a frame holds (handed out, not yet given back) has not
\* been quit.
C14_NoForcedQuit ==
    \A t \in Tasks : \A i \in HeldBy(t) : frames[t][i] \notin quitted

\* C15: once cleanup has run and every worker has finished, the queue and
\* active_drivers are empty and every constructed driver has been quit.
C15_NothingLeftAfterShutdown ==
    (sd_pc = "done" /\ \A t \in Tasks : tpc[t] = "finished") =>
        /\ driver_queue = <<>>
        /\ active_drivers = {}
        /\ Constructed \subseteq quitted

\* C16: when every construction of the pool initialization failed, no
\* Extractor call is ever made, every task ends (without shutdown) as a failed
\* Result carrying the pool-exhaustion error after at most max_retries + 1
\* attempts, and MultiThreadScraper.scrape_urls returns one such Result per
\* target.
C16_EmptyPoolAllFail ==
    (pool_size >= 1 /\ nextDriver = 1) =>
        /\ \A t \in Tasks : calls[t] = 0 /\ attempts[t] <= MaxRetries + 1
        /\ \A t \in Tasks :
              (tpc[t] = "finished" /\ ~shutdown_event)
                  => retval[t] = ScrapeResult(t, FALSE, PoolEmptyMsg)
        /\ (Returned /\ ~shutdown_event /\ variant = "multi")
              => results = [i \in 1 .. NumTasks |->
                               ScrapeResult(i - 1, FALSE, PoolEmptyMsg)]

C16_Witness ==
    /\ pool_size >= 1 /\ nextDriver = 1
    /\ variant = "multi"
    /\ Returned /\ ~shutdown_event
    /\ \A t \in Tasks : attempts[t] = MaxRetries + 1

\* C17: with pool_size = 0 no task is dispatched and none makes an attempt.
C17_ZeroPoolAborts ==
    pool_size = 0 => \A t \in Tasks : tpc[t] = "queued" /\ attempts[t] = 0

\* C18: completed_tasks never decreases, and when a run that was not shut
\* down returns it equals total_tasks.
C18_MonotoneAndComplete ==
    /\ [][completed_tasks' >= completed_tasks]_vars
    /\ []((Returned /\ ~shutdown_event) => completed_tasks = NumTasks)

\* C18 restricted to MultiThreadScraper's ProgressTracker, where it holds
C18_MonotoneAndCompleteMulti ==
    /\ [][completed_tasks' >= completed_tasks]_vars
    /\ []((Returned /\ ~shutdown_event /\ variant = "multi")
              => completed_tasks = NumTasks)

\* C19: update_progress is atomic: whenever no call is in progress, after n
\* calls of which f had success=False, completed_tasks = n and failed_tasks = f.
C19_NoLostUpdate ==
    (\A w \in Threads : wpc[w] = "idle") =>
        /\ completed_tasks = n_calls
        /\ failed_tasks = f_calls

\* every call has been made, by workers of MultiThreadScraper, some failed
C19_Witness ==
    /\ variant = "multi"
    /\ \A w \in Threads : wpc[w] = "idle"
    /\ n_calls = NumTasks
    /\ f_calls >= 1 /\ f_calls < n_calls

\* C20: a progress read is never torn: the pair a reader got is a pair the
\* counters held together, with failed_tasks <= completed_tasks.
C20_NoTornRead ==
    rpc = "done" => /\ snap \in committed
                    /\ snap[2] <= snap[1]

\* C20 restricted to ProgressTracker.get_progress, where it holds
C20_NoTornReadMulti ==
    (rpc = "done" /\ variant = "multi") => /\ snap \in committed
                                           /\ snap[2] <= snap[1]

\* C21: the progress callback is invoked exactly once per task with that
\* task's Result and exactly once more, after all of them, with None: a run
\* over n targets that was not shut down has made n + 1 invocations at return.
C21_CallbackPerTaskAndFinal ==
    /\ notified[-1] >= 1 => Returned
    /\ (Returned /\ ~shutdown_event) =>
          /\ \A t \in Tasks : notified[t] = 1
          /\ notified[-1] = 1

\* C21 restricted to PremiumScraper, where it holds
C21_CallbackPerTaskAndFinalPremium ==
    /\ notified[-1] >= 1 => Returned
    /\ (Returned /\ ~shutdown_event /\ variant = "premium") =>
          /\ \A t \in Tasks : notified[t] = 1
          /\ notified[-1] = 1

\* drivers constructed and not quit
Live == Constructed \ quitted

\* C22: with a pool of pool_size >= max_workers drivers (all constructed, none
\* lost) and no shutdown, every finished task has a Result, and it is a failed
\* one only if an Extractor call of that task itself was made and failed.
C22_NoCrossTaskEffect ==
    \A t \in Tasks :
        (/\ pool_size >= max_workers
         /\ Initialized /\ init_failed = 0
         /\ Live = Constructed /\ nextDriver = pool_size + 1
         /\ ~shutdown_event
         /\ tpc[t] = "finished")
            => /\ HasResult(t)
               /\ ~retval[t].success => calls[t] >= 1

\* C23: scrape_urls returns every Result it collected, whatever the progress
\* callback raised in a per-task or in the final notification.
C23_CollectedResultsReturned ==
    Returned =>
        \A t \in yielded : HasResult(t) => CountOf(results, t) >= 1

\* C23 restricted to MultiThreadScraper, where it holds
C23_CollectedResultsReturnedMulti ==
    (Returned /\ variant = "multi") =>
        \A t \in yielded : HasResult(t) => CountOf(results, t) >= 1

\* C24: at every instant at most max_workers units of work are in progress and
\* at most max_workers of them are inside the semaphore; every target not yet
\* started is in the executor's queue.
C24_WorkerCeiling ==
    /\ Cardinality({t \in Tasks : Running(t)}) <= max_workers
    /\ rate_limiter \in 0 .. max_workers
    /\ Cardinality({t \in Tasks : tpc[t] \in {"get", "add", "extract"}})
          = max_workers - rate_limiter

\* more targets than workers: one waits in the queue while every worker is busy
C24_Witness ==
    /\ max_workers < NumTasks
    /\ Cardinality({t \in Tasks : Running(t)}) = max_workers
    /\ \E t \in Tasks : tpc[t] = "queued"

\* C25: for every configuration (pool_size < max_workers and an empty pool
\* included) scrape_urls eventually returns, and then every task has finished.
C25_EventuallyReturns == <>(Returned /\ \A t \in Tasks : tpc[t] = "finished")

\* fewer drivers than workers: a task's first acquire timed out, its retry
\* got a driver, and the run returned with every task successful
C25_Witness ==
    /\ Returned /\ ~shutdown_event
    /\ pool_size < max_workers
    /\ \A t \in Tasks : HasResult(t) /\ retval[t].success
    /\ \E t \in Tasks : attempts[t] = 2 /\ calls[t] = 1

\* C26: every PoolStatus returned by get_pool_status satisfies
\* available_drivers + active_drivers <= total_capacity.
C26_StatusWithinCapacity ==
    st_pc = "done" => st_available + st_active <= pool_size

\* drivers in the available queue
Queued(q) == {q[i] : i \in 1 .. Len(q)}

\* what return_driver(d) may do to d, the queue and the live drivers
ReturnEffect(d) ==
    \/ /\ d \notin quitted'
       /\ driver_queue' = Append(driver_queue, d)
       /\ Live' = Live
    \/ /\ d \in quitted'
       /\ d \notin Queued(driver_queue')
       /\ \/ /\ nextDriver' = nextDriver + 1
             /\ driver_queue' = Append(driver_queue, nextDriver)
             /\ Cardinality(Live') = Cardinality(Live)
          \/ /\ nextDriver' = nextDriver
             /\ driver_queue' = driver_queue
             /\ Cardinality(Live') = Cardinality(Live) - 1

\* C27: return_driver(d) either makes a healthy d available again, or
\* destroys d, keeps it out of the queue and attempts one replacement: the
\* number of live drivers is unchanged when the replacement is constructed
\* and one less when it is not.
C27_ReturnDriver ==
    [][\A t \in Tasks :
          (tpc[t] = "health" /\ tpc'[t] # "health") => ReturnEffect(CurDriver(t))]_vars

\* C27 for the return of a driver that cleanup() has not quit, where it holds
C27_ReturnDriverNotQuit ==
    [][\A t \in Tasks :
          (tpc[t] = "health" /\ tpc'[t] # "health" /\ CurDriver(t) \notin quitted)
              => ReturnEffect(CurDriver(t))]_vars

C29_SnapshotFormulas ==
    sn_out # NoSnapshot =>
        /\ sn_out.success_rate =
              Round2((sn_completed - sn_failed) * 100, Max2(sn_completed, 1))
        /\ sn_out.elapsed_time = 100 * sn_elapsed
        /\ sn_out.estimated_remaining =
              Round2(sn_elapsed * (sn_total - sn_completed), Max2(sn_completed, 1))

\* C29 for ProgressTracker.get_progress after the first completion, where it holds
C29_SnapshotFormulasTrackerStarted ==
    (sn_out # NoSnapshot /\ variant = "multi" /\ sn_completed >= 1) =>
        /\ sn_out.success_rate =
              Round2((sn_completed - sn_failed) * 100, Max2(sn_completed, 1))
        /\ sn_out.elapsed_time = 100 * sn_elapsed
        /\ sn_out.estimated_remaining =
              Round2(sn_elapsed * (sn_total - sn_completed), Max2(sn_completed, 1))

\* C30: when f of the pool_size constructions of _initialize_pool failed, the
\* pool starts with exactly pool_size - f drivers available and none active,
\* and the live drivers never outnumber those constructed at initialization.
C30_BestEffortInit ==
    /\ Cardinality(Live) <= init_i - init_failed
    /\ Initialized => Cardinality(Live) <= pool_size - init_failed
    /\ (Initialized /\ sd_pc = "idle" /\ \A t \in Tasks : tpc[t] = "queued") =>
          /\ Len(driver_queue) = pool_size - init_failed
          /\ Queued(driver_queue) = Live
          /\ active_drivers = {}

\* some construction failed at initialization, a later replacement succeeded,
\* and as many drivers are live as the initialization constructed
C30_Witness ==
    /\ Initialized
    /\ init_failed >= 1 /\ init_failed < pool_size
    /\ nextDriver > pool_size - init_failed + 1
    /\ Cardinality(Live) = pool_size - init_failed

\* C33: a task that has made at least one attempt ends with a terminal Result
\* (and, in MultiThreadScraper, the progress update made with it), also when
\* shutdown is signaled during its retry backoff.
C33_AttemptedTaskFinalized ==
    \A t \in Tasks :
        (tpc[t] = "finished" /\ attempts[t] >= 1) => retval[t] # NoneResult

\* C34: the progress counters always satisfy
\* 0 <= failed_tasks <= completed_tasks <= total_tasks.
C34_CounterOrder ==
    /\ 0 <= failed_tasks
    /\ failed_tasks <= completed_tasks
    /\ completed_tasks <= NumTasks

\* C34 restricted to MultiThreadScraper's ProgressTracker, where it holds
C34_CounterOrderMulti ==
    variant = "multi" =>
        /\ 0 <= failed_tasks
        /\ failed_tasks <= completed_tasks
        /\ completed_tasks <= NumTasks

\* C35: when MultiThreadScraper.scrape_urls returns, completed_tasks is the
\* length of the returned list and failed_tasks the number of its failed Results.
C35_CountersMatchResults ==
    (Returned /\ variant = "multi") =>
        /\ completed_tasks = Len(results)
        /\ failed_tasks =
              Cardinality({i \in 1 .. Len(results) : ~results[i].success})

\* C35 for runs that were not shut down, where it holds
C35_CountersMatchResultsNoShutdown ==
    (Returned /\ variant = "multi" /\ ~shutdown_event) =>
        /\ completed_tasks = Len(results)
        /\ failed_tasks =
              Cardinality({i \in 1 .. Len(results) : ~results[i].success})

\* C31: at most one scraping run is in progress at a time, and while a
\* scraping_worker thread is still running is_scraping is true (so that a
\* further start_scraping is rejected), also after stop_scraping.
C31_SingleRun ==
    /\ Cardinality({r \in Runs : Alive(r)}) <= 1
    /\ (\E r \in Runs : Alive(r)) => is_scraping

\* C32: the collecting thread delivering the progress callback and the thread
\* polling the progress never wait for each other's lock.
C32_NoLockCycle ==
    ~ (/\ poll_pc = "locked"
       /\ PollWaits
       /\ run_pc[scraper] \in {"callback", "final_callback"})

\* C36: a start_scraping call made while is_scraping is true returns the error
\* and leaves the API's fields and every run unchanged; a stop_scraping call
\* made while is_scraping is false returns the error and changes nothing, no
\* shutdown_event is set.
C36_RejectedCallsChangeNothing ==
    [][(variant = "multi" /\ api_calls' = api_calls + 1) =>
          /\ (api_op' = "start" /\ is_scraping) =>
                (api_ret' = AlreadyRunningMsg /\ UNCHANGED <<apiFields, runVars>>)
          /\ (api_op' = "stop" /\ ~is_scraping) =>
                (api_ret' = NotRunningMsg /\ UNCHANGED <<apiFields, runVars>>)]_vars

\* a start_scraping call has been rejected while a run was alive
C36_Witness ==
    /\ variant = "multi"
    /\ api_op = "start"
    /\ api_ret = AlreadyRunningMsg
    /\ is_scraping
    /\ \E r \in Runs : Alive(r) /\ run_results[r] > 0

\* a stop_scraping call has been rejected
C36_WitnessStop ==
    /\ variant = "multi"
    /\ api_op = "stop"
    /\ api_ret = NotRunningMsg
    /\ ~is_scraping

====
